---- MODULE Spec2Model ----
(***************************************************************************)
(* Kafka->Ethereum bridge (internal/kldkafka/kafkabridge.go): the in-flight *)
(* tracker, the consumer loop and the two producer feedback loops.          *)
(***************************************************************************)
EXTENDS Integers, Sequences, FiniteSets, Bags, TLC

\* ---------------------------------------------------------------- bounds
FirstOffset == 10
NumOffsets == 3
MaxDeliveries == 3
MaxCeiling == 2
MaxBridges == 2

\* ------------------------------------------------------- program constants
DefaultMaxInFlight == 10
MinTXWaitTime == 10

Topic == "in"
Partitions == {0, 1}
LastOffset == FirstOffset + NumOffsets - 1
Offsets == FirstOffset..LastOffset
NoOffset == FirstOffset - 1

\* message values: a payload that does not decode, or the decoded headers
BadJSON == [json |-> FALSE, id |-> "", account |-> ""]
Headers == { [json |-> TRUE, id |-> "A", account |-> ""] }
Values == {BadJSON} \cup Headers
UUIDs == {"uuid-1"}
\* the header combinations and generated ids used where the reply key matters
AllHeaders == [json : {TRUE}, id : {"", "A"}, account : {"", "0xabc"}]
AllUUIDs == {"uuid-1", "uuid-2"}
Nil == << >>
NoMsg == [partition |-> 0 - 1, offset |-> 0 - 1, value |-> BadJSON]
NoAck == [metadata |-> Nil, key |-> ""]

VARIABLES
  conf,        \* KafkaBridge.conf
  inFlight,    \* KafkaBridge.inFlight : reqOffset -> msgContext
  mutex,       \* holder of inFlightCond.L
  consumer,    \* ConsumerMessagesLoop: position and locals
  success,     \* ProducerSuccessLoop: position and locals
  errors,      \* ProducerErrorLoop: position and locals
  crashed,     \* the process has panicked
  processing,  \* contexts handed to processor.OnMessage, Reply still owed
  producerQ,   \* messages written to producer.Input(), outcome not yet read
  stream,      \* the consumer group: log contents, cursors, marked offsets
  hist,        \* per coordinate counts of admissions, dispatches, replies, acks
  server,      \* startServer: position, configuration read, launched tasks
  validation   \* SetConf/ValidateConf: position, the configuration set, the error

vars == <<validation, server, conf, inFlight, mutex, consumer, success, errors, crashed,
          processing, producerQ, stream, hist>>

\* reqOffset: fmt.Sprintf("%s:%d:%d", msg.Topic, msg.Partition, msg.Offset)
ReqOffset(topic, partition, offset) == <<topic, partition, offset>>

Coords == { ReqOffset(Topic, p, o) : p \in Partitions, o \in Offsets }

\* ------------------------------------------------------------ ValidateConf
ValidateConf(c) ==
  IF c.URL = ""
  THEN [err |-> TRUE, conf |-> c]
  ELSE LET c1 == IF c.MaxTXWaitTime < MinTXWaitTime
                 THEN [c EXCEPT !.MaxTXWaitTime = MinTXWaitTime] ELSE c
           c2 == IF c1.MaxInFlight = 0
                 THEN [c1 EXCEPT !.MaxInFlight = DefaultMaxInFlight] ELSE c1
       IN [err |-> FALSE, conf |-> c2]

\* the configurations SetConf may install: any url, wait time and ceiling
ConfInputs ==
  [URL : {"", "http://node"},
   MaxTXWaitTime : (0 - 1)..(MinTXWaitTime + MaxCeiling),
   MaxInFlight : (0 - 1)..MaxCeiling]

RawConfs == [URL : {"http://node"}, MaxTXWaitTime : {0}, MaxInFlight : 0..MaxCeiling]

\* ---------------------------------------------------------- addInflightMsg
NewCtx(msg) ==
  [reqOffset |-> ReqOffset(Topic, msg.partition, msg.offset),
   partition |-> msg.partition,
   offset    |-> msg.offset,
   complete  |-> FALSE,
   replied   |-> FALSE,
   headersID |-> "",
   key       |-> ""]

AddInflightMsg_dropUnparsed(inF, msg, uuid) ==
  LET ctx == NewCtx(msg) IN
  IF ctx.reqOffset \in DOMAIN inF
  THEN [inFlight |-> inF, pCtx |-> Nil, err |-> FALSE]
  ELSE IF ~msg.value.json
  THEN [inFlight |-> inF, pCtx |-> ctx.reqOffset, err |-> TRUE]
  ELSE LET id  == IF msg.value.id = "" THEN uuid ELSE msg.value.id
           key == IF msg.value.account # "" THEN msg.value.account ELSE id
       IN [inFlight |-> inF @@ (ctx.reqOffset :> [ctx EXCEPT !.headersID = id, !.key = key]),
           pCtx |-> ctx.reqOffset, err |-> FALSE]

AddInflightMsg_keyFromID(inF, msg, uuid) ==
  LET ctx == NewCtx(msg) IN
  IF ctx.reqOffset \in DOMAIN inF
  THEN [inFlight |-> inF, pCtx |-> Nil, err |-> FALSE]
  ELSE IF ~msg.value.json
  THEN [inFlight |-> inF @@ (ctx.reqOffset :> ctx), pCtx |-> ctx.reqOffset, err |-> TRUE]
  ELSE LET id  == IF msg.value.id = "" THEN uuid ELSE msg.value.id
           key == id
       IN [inFlight |-> inF @@ (ctx.reqOffset :> [ctx EXCEPT !.headersID = id, !.key = key]),
           pCtx |-> ctx.reqOffset, err |-> FALSE]

AddInflightMsg_noDedup(inF, msg, uuid) ==
  LET ctx == NewCtx(msg) IN
  IF ~msg.value.json
  THEN [inFlight |-> (ctx.reqOffset :> ctx) @@ inF, pCtx |-> ctx.reqOffset, err |-> TRUE]
  ELSE LET id  == IF msg.value.id = "" THEN uuid ELSE msg.value.id
           key == IF msg.value.account # "" THEN msg.value.account ELSE id
       IN [inFlight |-> (ctx.reqOffset :> [ctx EXCEPT !.headersID = id, !.key = key]) @@ inF,
           pCtx |-> ctx.reqOffset, err |-> FALSE]

AddInflightMsg(inF, msg, uuid) ==
  LET ctx == NewCtx(msg) IN
  IF ctx.reqOffset \in DOMAIN inF
  THEN [inFlight |-> inF, pCtx |-> Nil, err |-> FALSE]
  ELSE IF ~msg.value.json
  THEN [inFlight |-> inF @@ (ctx.reqOffset :> ctx), pCtx |-> ctx.reqOffset, err |-> TRUE]
  ELSE LET id  == IF msg.value.id = "" THEN uuid ELSE msg.value.id
           key == IF msg.value.account # "" THEN msg.value.account ELSE id
       IN [inFlight |-> inF @@ (ctx.reqOffset :> [ctx EXCEPT !.headersID = id, !.key = key]),
           pCtx |-> ctx.reqOffset, err |-> FALSE]

\* ----------------------------------------------------- setInFlightComplete
\* ctxByOffset.Less
Less_reversed(a, b) == a.offset > b.offset

Less(a, b) == a.offset < b.offset

RECURSIVE SortByOffset(_)
SortByOffset(S) ==
  IF S = {} THEN <<>>
  ELSE LET m == CHOOSE x \in S : \A y \in S : ~Less(y, x)
       IN <<m>> \o SortByOffset(S \ {m})

RECURSIVE CompletePrefix_noBreak(_)
CompletePrefix_noBreak(seq) ==
  IF seq = <<>> THEN <<>>
  ELSE IF Head(seq).complete THEN <<Head(seq)>> \o CompletePrefix_noBreak(Tail(seq))
  ELSE CompletePrefix_noBreak(Tail(seq))

RECURSIVE CompletePrefix_stopEarly(_)
CompletePrefix_stopEarly(seq) ==
  IF seq = <<>> THEN <<>>
  ELSE IF Head(seq).complete /\ Len(seq) > 1 /\ seq[2].complete
  THEN <<Head(seq)>> \o CompletePrefix_stopEarly(Tail(seq))
  ELSE <<>>

RECURSIVE CompletePrefix(_)
CompletePrefix(seq) ==
  IF seq = <<>> THEN <<>>
  ELSE IF Head(seq).complete THEN <<Head(seq)>> \o CompletePrefix(Tail(seq))
  ELSE <<>>

CompleteInPartition_anyPartition(inF, partition) ==
  SortByOffset({ inF[r] : r \in DOMAIN inF })

CompleteInPartition(inF, partition) ==
  SortByOffset({ inF[r] : r \in { q \in DOMAIN inF : inF[q].partition = partition } })

SetInFlightComplete_deleteOne(inF, r) ==
  LET inF1 == [inF EXCEPT ![r].complete = TRUE]
      readyToAck == CompletePrefix(CompleteInPartition(inF1, inF1[r].partition))
      canMark == Len(readyToAck) > 0
  IN IF canMark
     THEN [inFlight |-> [q \in (DOMAIN inF1) \ {r} |-> inF1[q]],
           marks |-> << readyToAck[Len(readyToAck)] >>]
     ELSE [inFlight |-> inF1, marks |-> <<>>]

SetInFlightComplete_noDelete(inF, r) ==
  LET inF1 == [inF EXCEPT ![r].complete = TRUE]
      readyToAck == CompletePrefix(CompleteInPartition(inF1, inF1[r].partition))
      canMark == Len(readyToAck) > 0
  IN IF canMark
     THEN [inFlight |-> inF1, marks |-> << readyToAck[Len(readyToAck)] >>]
     ELSE [inFlight |-> inF1, marks |-> <<>>]

SetInFlightComplete(inF, r) ==
  LET inF1 == [inF EXCEPT ![r].complete = TRUE]
      readyToAck == CompletePrefix(CompleteInPartition(inF1, inF1[r].partition))
      canMark == Len(readyToAck) > 0
      gone == { readyToAck[i].reqOffset : i \in 1..Len(readyToAck) }
  IN IF canMark
     THEN [inFlight |-> [q \in (DOMAIN inF1) \ gone |-> inF1[q]],
           marks |-> << readyToAck[Len(readyToAck)] >>]
     ELSE [inFlight |-> inF1, marks |-> <<>>]

\* consumer.MarkOffset: the group keeps the highest offset marked per partition
MarkOffset(st, marks) ==
  IF marks = <<>> THEN st
  ELSE LET m == marks[1] IN
       [st EXCEPT !.lastMarked[m.partition] = m.offset,
                  !.markCalls[m.partition] = @ + 1,
                  !.highMarked[m.partition] = IF m.offset > @ THEN m.offset ELSE @]

\* --------------------------------------------------------- msgContext.Reply
ProducerMessage(ctx) == [metadata |-> ctx.reqOffset, key |-> ctx.key]

Reply_forget(inF, r) == inF

\* c.replyBytes is written from the reply; the caller performs the send to
\* c.producer.Input() with Metadata: c.reqOffset and Key: c.key
Reply(inF, r) == [inF EXCEPT ![r].replied = TRUE]

\* ------------------------------------------------------------------- Init
InitTracker ==
  /\ inFlight = << >>
  /\ mutex = "free"
  /\ consumer = [pc |-> "recv", msg |-> NoMsg, msgCtx |-> Nil, err |-> FALSE, wasInFlight |-> FALSE]
  /\ success = [pc |-> "recv", msg |-> NoAck]
  /\ errors = [pc |-> "recv", msg |-> NoAck]
  /\ crashed = "no"
  /\ processing = {}
  /\ producerQ = EmptyBag
  /\ stream = [log        |-> [c \in Coords |-> {}],
               cursor     |-> [p \in Partitions |-> FirstOffset],
               delivered  |-> 0,
               lastMarked |-> [p \in Partitions |-> NoOffset],
               markCalls  |-> [p \in Partitions |-> 0],
               highMarked |-> [p \in Partitions |-> NoOffset]]
  /\ hist = [c \in Coords |-> [admitted |-> 0, dispatched |-> 0, replied |-> 0, acked |-> 0]]

NoValidation ==
  [pc |-> "none", err |-> FALSE, raw |-> [URL |-> "", MaxTXWaitTime |-> 0, MaxInFlight |-> 0]]

InitBridge ==
  /\ conf \in { ValidateConf(c).conf : c \in { rc \in RawConfs : ~ValidateConf(rc).err } }
  /\ validation = NoValidation
  /\ InitTracker


\* the server configuration: whether the file could be read, the print flag,
\* the Kafka bridge configurations and, per webhooks bridge, whether its
\* configuration validates
ServerKafkaConfs == [URL : {"", "http://node"}, MaxTXWaitTime : {0}, MaxInFlight : {0}]
SeqsUpTo(S, n) == UNION { [1..k -> S] : k \in 0..n }
ServerConfigs ==
  [readErr : BOOLEAN, printYAML : BOOLEAN,
   kafka : SeqsUpTo(ServerKafkaConfs, MaxBridges),
   webhooks : SeqsUpTo(BOOLEAN, MaxBridges)]
NoServerConfig == [readErr |-> FALSE, printYAML |-> FALSE, kafka |-> << >>, webhooks |-> << >>]
NoServer == [pc |-> "none", cfg |-> NoServerConfig, idx |-> 0, tasks |-> << >>, err |-> FALSE]

\* a single bridge, started on its own
Init == InitBridge /\ server = NoServer

Running == crashed = "no"

\* ------------------------------------------------ ConsumerMessagesLoop
\* for msg := range consumer.Messages(): the next message of a partition that
\* is not yet marked; a coordinate read before carries the value it carried
\* the first time. wasInFlight records whether the coordinate was in the map
\* when the stream handed the message over.
NextOffset(st, p) ==
  IF st.cursor[p] > st.highMarked[p] THEN st.cursor[p] ELSE st.highMarked[p] + 1

ConsumerRecv(p, v) ==
  /\ Running
  /\ consumer.pc = "recv"
  /\ stream.delivered < MaxDeliveries
  /\ NextOffset(stream, p) <= LastOffset
  /\ LET o == NextOffset(stream, p)
         c == ReqOffset(Topic, p, o)
     IN /\ stream.log[c] \subseteq {v}
        /\ stream' = [stream EXCEPT !.log[c] = {v}, !.cursor[p] = o + 1, !.delivered = @ + 1]
        /\ consumer' = [consumer EXCEPT !.pc = "lock",
                                        !.msg = [partition |-> p, offset |-> o, value |-> v],
                                        !.wasInFlight = (c \in DOMAIN inFlight)]
  /\ UNCHANGED <<validation, server, conf, inFlight, mutex, success, errors, crashed, processing, producerQ, hist>>

\* a rebalance: the partition is read again from the first offset not yet marked
Rebalance(p) ==
  /\ Running
  /\ stream.cursor[p] > stream.highMarked[p] + 1
  /\ stream' = [stream EXCEPT !.cursor[p] = stream.highMarked[p] + 1]
  /\ UNCHANGED <<validation, server, conf, inFlight, mutex, consumer, success, errors, crashed, processing,
                 producerQ, hist>>

\* the stream is closed: the range loop ends, wg.Done()
ConsumerClose ==
  /\ Running
  /\ consumer.pc = "recv"
  /\ consumer' = [consumer EXCEPT !.pc = "done"]
  /\ UNCHANGED <<validation, server, conf, inFlight, mutex, success, errors, crashed, processing, producerQ,
                 stream, hist>>

\* k.inFlightCond.L.Lock(), also the re-acquisition when Wait() returns
ConsumerLock ==
  /\ Running
  /\ consumer.pc \in {"lock", "woken"}
  /\ mutex = "free"
  /\ mutex' = "consumer"
  /\ consumer' = [consumer EXCEPT !.pc = "cs"]
  /\ UNCHANGED <<validation, server, conf, inFlight, success, errors, crashed, processing, producerQ, stream, hist>>

AtCapacity_offByOne == Cardinality(DOMAIN inFlight) > conf.MaxInFlight

AtCapacity == Cardinality(DOMAIN inFlight) >= conf.MaxInFlight

\* for len(k.inFlight) >= k.conf.MaxInFlight { k.inFlightCond.Wait() }
ConsumerWait ==
  /\ Running
  /\ consumer.pc = "cs"
  /\ AtCapacity
  /\ mutex' = "free"
  /\ consumer' = [consumer EXCEPT !.pc = "wait"]
  /\ UNCHANGED <<validation, server, conf, inFlight, success, errors, crashed, processing, producerQ, stream, hist>>

ConsumerAddInflight_keepLock(uuid) ==
  /\ Running
  /\ consumer.pc = "cs"
  /\ ~AtCapacity
  /\ LET res == AddInflightMsg(inFlight, consumer.msg, uuid)
         c == ReqOffset(Topic, consumer.msg.partition, consumer.msg.offset)
     IN /\ inFlight' = res.inFlight
        /\ consumer' = [consumer EXCEPT !.pc = "dispatch", !.msgCtx = res.pCtx, !.err = res.err]
        /\ hist' = IF res.pCtx = Nil THEN hist ELSE [hist EXCEPT ![c].admitted = @ + 1]
  /\ mutex' = mutex
  /\ UNCHANGED <<validation, server, conf, success, errors, crashed, processing, producerQ, stream>>

\* msgCtx, err := k.addInflightMsg(msg, producer); k.inFlightCond.L.Unlock()
ConsumerAddInflight(uuid) ==
  /\ Running
  /\ consumer.pc = "cs"
  /\ ~AtCapacity
  /\ LET res == AddInflightMsg(inFlight, consumer.msg, uuid)
         c == ReqOffset(Topic, consumer.msg.partition, consumer.msg.offset)
     IN /\ inFlight' = res.inFlight
        /\ consumer' = [consumer EXCEPT !.pc = "dispatch", !.msgCtx = res.pCtx, !.err = res.err]
        /\ hist' = IF res.pCtx = Nil THEN hist ELSE [hist EXCEPT ![c].admitted = @ + 1]
  /\ mutex' = "free"
  /\ UNCHANGED <<validation, server, conf, success, errors, crashed, processing, producerQ, stream>>

ConsumerIdle == [pc |-> "recv", msg |-> NoMsg, msgCtx |-> Nil, err |-> FALSE, wasInFlight |-> FALSE]

\* if msgCtx == nil { This was a dup }
ConsumerDup ==
  /\ Running
  /\ consumer.pc = "dispatch"
  /\ consumer.msgCtx = Nil
  /\ consumer' = ConsumerIdle
  /\ UNCHANGED <<validation, server, conf, inFlight, mutex, success, errors, crashed, processing, producerQ,
                 stream, hist>>

\* else if err == nil { k.processor.OnMessage(msgCtx) }
ConsumerOnMessage ==
  /\ Running
  /\ consumer.pc = "dispatch"
  /\ consumer.msgCtx # Nil
  /\ ~consumer.err
  /\ processing' = processing \cup {consumer.msgCtx}
  /\ hist' = [hist EXCEPT ![consumer.msgCtx].dispatched = @ + 1]
  /\ consumer' = ConsumerIdle
  /\ UNCHANGED <<validation, server, conf, inFlight, mutex, success, errors, crashed, producerQ, stream>>

ConsumerErrorReply_silent ==
  /\ Running
  /\ consumer.pc = "dispatch"
  /\ consumer.msgCtx # Nil
  /\ consumer.err
  /\ consumer' = ConsumerIdle
  /\ UNCHANGED <<validation, server, conf, inFlight, mutex, success, errors, crashed, processing, producerQ,
                 stream, hist>>

\* else { msgCtx.Reply(kldmessages.NewErrorReply(err, msg.Value)) }
ConsumerErrorReply ==
  /\ Running
  /\ consumer.pc = "dispatch"
  /\ consumer.msgCtx # Nil
  /\ consumer.err
  /\ consumer.msgCtx \in DOMAIN inFlight
  /\ producerQ' = producerQ (+) SetToBag({ProducerMessage(inFlight[consumer.msgCtx])})
  /\ inFlight' = Reply(inFlight, consumer.msgCtx)
  /\ hist' = [hist EXCEPT ![consumer.msgCtx].replied = @ + 1]
  /\ consumer' = ConsumerIdle
  /\ UNCHANGED <<validation, server, conf, mutex, success, errors, crashed, processing, stream>>

\* ------------------------------------------------------------ processor
\* the processor calls Reply once on a context it was handed
ProcessorReply(r) ==
  /\ Running
  /\ r \in processing
  /\ r \in DOMAIN inFlight
  /\ processing' = processing \ {r}
  /\ producerQ' = producerQ (+) SetToBag({ProducerMessage(inFlight[r])})
  /\ inFlight' = Reply(inFlight, r)
  /\ hist' = [hist EXCEPT ![r].replied = @ + 1]
  /\ UNCHANGED <<validation, server, conf, mutex, consumer, success, errors, crashed, stream>>

\* a processor that breaks its contract: Reply a second time on a context it
\* has already replied (once per admission at most)
ProcessorReplyAgain(r) ==
  /\ Running
  /\ r \in DOMAIN inFlight
  /\ r \notin processing
  /\ inFlight[r].replied
  /\ hist[r].dispatched > 0
  /\ hist[r].replied = hist[r].admitted
  /\ producerQ' = producerQ (+) SetToBag({ProducerMessage(inFlight[r])})
  /\ inFlight' = Reply(inFlight, r)
  /\ hist' = [hist EXCEPT ![r].replied = @ + 1]
  /\ UNCHANGED <<validation, server, conf, mutex, consumer, success, errors, crashed, processing, stream>>

\* ------------------------------------------------ ProducerSuccessLoop
\* for msg := range producer.Successes() { k.inFlightCond.L.Lock()
\* (taking the acknowledgement off the stream changes nothing another task
\* reads, so it is one step with the Lock that follows it)
SuccessLock(m) ==
  /\ Running
  /\ success.pc = "recv"
  /\ BagIn(m, producerQ)
  /\ mutex = "free"
  /\ producerQ' = producerQ (-) SetToBag({m})
  /\ mutex' = "success"
  /\ success' = [pc |-> "cs", msg |-> m]
  /\ UNCHANGED <<validation, server, conf, inFlight, consumer, errors, crashed, processing, stream, hist>>

Broadcast_none(cons) == cons

\* inFlightCond.Broadcast(): a consumer blocked in Wait() becomes runnable
Broadcast(cons) == IF cons.pc = "wait" THEN [cons EXCEPT !.pc = "woken"] ELSE cons

SuccessHandle_ignoreUnknown ==
  /\ Running
  /\ success.pc = "cs"
  /\ LET reqOffset == success.msg.metadata IN
     IF reqOffset \in DOMAIN inFlight
     THEN \E res \in {SetInFlightComplete(inFlight, reqOffset)} :
          /\ inFlight' = res.inFlight
          /\ stream' = MarkOffset(stream, res.marks)
          /\ hist' = [hist EXCEPT ![reqOffset].acked = @ + 1]
          /\ consumer' = Broadcast(consumer)
     ELSE UNCHANGED <<inFlight, stream, hist, consumer>>
  /\ mutex' = "free"
  /\ success' = [pc |-> "recv", msg |-> NoAck]
  /\ UNCHANGED <<validation, server, conf, errors, crashed, processing, producerQ>>

\* lookup, setInFlightComplete, Broadcast, Unlock; panic when not in the map
SuccessHandle ==
  /\ Running
  /\ success.pc = "cs"
  /\ LET reqOffset == success.msg.metadata IN
     IF reqOffset \in DOMAIN inFlight
     THEN \E res \in {SetInFlightComplete(inFlight, reqOffset)} :
          /\ inFlight' = res.inFlight
          /\ stream' = MarkOffset(stream, res.marks)
          /\ hist' = [hist EXCEPT ![reqOffset].acked = @ + 1]
          /\ consumer' = Broadcast(consumer)
          /\ mutex' = "free"
          /\ success' = [pc |-> "recv", msg |-> NoAck]
          /\ UNCHANGED crashed
     ELSE /\ crashed' = "unknown-ack"
          /\ UNCHANGED <<inFlight, stream, hist, consumer, mutex, success>>
  /\ UNCHANGED <<validation, server, conf, errors, processing, producerQ>>

\* -------------------------------------------------- ProducerErrorLoop
\* for err := range producer.Errors() { k.inFlightCond.L.Lock(); ...; panic(err)
ErrorPanic(m) ==
  /\ Running
  /\ errors.pc = "recv"
  /\ BagIn(m, producerQ)
  /\ mutex = "free"
  /\ producerQ' = producerQ (-) SetToBag({m})
  /\ mutex' = "errors"
  /\ errors' = [pc |-> "panic", msg |-> m]
  /\ crashed' = "producer-error"
  /\ UNCHANGED <<validation, server, conf, inFlight, consumer, success, processing, stream, hist>>

\* ------------------------------------------------------------ startServer
\* serverConfig, err := readServerConfig(); if rootConfig.PrintYAML { ... }
ServerReadConfig ==
  /\ server.pc = "start"
  /\ server' = IF server.cfg.readErr THEN [server EXCEPT !.pc = "returned", !.err = TRUE]
               ELSE IF server.cfg.printYAML THEN [server EXCEPT !.pc = "returned"]
               ELSE [server EXCEPT !.pc = "kafka", !.idx = 0]
  /\ UNCHANGED <<validation, conf, inFlight, mutex, consumer, success, errors, crashed, processing,
                 producerQ, stream, hist>>

\* one iteration of: for name, conf := range serverConfig.KafkaBridges
\* (ValidateConf, return err on failure, else go func() { Start(); send })
ServerLaunchKafka ==
  /\ server.pc = "kafka"
  /\ server' =
       IF server.idx < Len(server.cfg.kafka)
       THEN IF ValidateConf(server.cfg.kafka[server.idx + 1]).err
            THEN [server EXCEPT !.pc = "returned", !.err = TRUE]
            ELSE [server EXCEPT !.idx = @ + 1, !.tasks = Append(@, "running")]
       ELSE [server EXCEPT !.pc = "webhooks", !.idx = 0]
  /\ UNCHANGED <<validation, conf, inFlight, mutex, consumer, success, errors, crashed, processing,
                 producerQ, stream, hist>>

\* one iteration of: for name, conf := range serverConfig.WebhooksBridges
ServerLaunchWebhooks ==
  /\ server.pc = "webhooks"
  /\ server' =
       IF server.idx < Len(server.cfg.webhooks)
       THEN IF ~server.cfg.webhooks[server.idx + 1]
            THEN [server EXCEPT !.pc = "returned", !.err = TRUE]
            ELSE [server EXCEPT !.idx = @ + 1, !.tasks = Append(@, "running")]
       ELSE [server EXCEPT !.pc = "recv", !.idx = 0]
  /\ UNCHANGED <<validation, conf, inFlight, mutex, consumer, success, errors, crashed, processing,
                 producerQ, stream, hist>>

\* in a launched task Start() returns (with or without error); the task then
\* blocks in the send on the unbuffered channel: anyRoutineFinished <- true
TaskFinish(t) ==
  /\ server.pc \in {"kafka", "webhooks", "recv"}
  /\ t \in 1..Len(server.tasks)
  /\ server.tasks[t] = "running"
  /\ server' = [server EXCEPT !.tasks[t] = "finished"]
  /\ UNCHANGED <<validation, conf, inFlight, mutex, consumer, success, errors, crashed, processing,
                 producerQ, stream, hist>>

ServerRecv_waitAll(t) ==
  /\ server.pc = "recv"
  /\ t \in 1..Len(server.tasks)
  /\ \A u \in 1..Len(server.tasks) : server.tasks[u] = "finished"
  /\ server' = [server EXCEPT !.pc = "returned", !.tasks[t] = "exited"]
  /\ UNCHANGED <<validation, conf, inFlight, mutex, consumer, success, errors, crashed, processing,
                 producerQ, stream, hist>>

\* <-anyRoutineFinished; return: the receive pairs with the send of one task
ServerRecv(t) ==
  /\ server.pc = "recv"
  /\ t \in 1..Len(server.tasks)
  /\ server.tasks[t] = "finished"
  /\ server' = [server EXCEPT !.pc = "returned", !.tasks[t] = "exited"]
  /\ UNCHANGED <<validation, conf, inFlight, mutex, consumer, success, errors, crashed, processing,
                 producerQ, stream, hist>>

ProducerMessages ==
  [metadata : Coords,
   key : {""} \cup {h.id : h \in AllHeaders} \cup {h.account : h \in AllHeaders} \cup AllUUIDs]

Next ==
  \/ \E p \in Partitions, v \in Values : ConsumerRecv(p, v)
  \/ \E p \in Partitions : Rebalance(p)
  \/ ConsumerClose
  \/ ConsumerLock
  \/ ConsumerWait
  \/ \E uuid \in UUIDs : ConsumerAddInflight(uuid)
  \/ ConsumerDup
  \/ ConsumerOnMessage
  \/ ConsumerErrorReply
  \/ \E r \in Coords : ProcessorReply(r)
  \/ \E m \in ProducerMessages : SuccessLock(m)
  \/ SuccessHandle
  \/ \E m \in ProducerMessages : ErrorPanic(m)

Spec == Init /\ [][Next]_vars

\* the bridge with a processor that may reply twice, a stream that is neither
\* rebalanced nor closed and a producer that reports no error
NextUnknownAck ==
  \/ \E p \in Partitions, v \in Values : ConsumerRecv(p, v)
  \/ ConsumerLock
  \/ ConsumerWait
  \/ \E uuid \in UUIDs : ConsumerAddInflight(uuid)
  \/ ConsumerOnMessage
  \/ ConsumerErrorReply
  \/ \E r \in Coords : ProcessorReply(r)
  \/ \E r \in Coords : ProcessorReplyAgain(r)
  \/ \E m \in ProducerMessages : SuccessLock(m)
  \/ SuccessHandle

SpecUnknownAck == Init /\ [][NextUnknownAck]_vars

\* the bridge on a stream of decodable messages that is read once (no
\* rebalance, never closed), with a ceiling below the number of deliveries, a
\* processor that replies and a producer that acknowledges every reply; each
\* step of each loop is scheduled fairly
InitBackpressure == Init /\ conf.MaxInFlight < MaxDeliveries

NextBackpressure ==
  \/ \E p \in Partitions, v \in Headers : ConsumerRecv(p, v)
  \/ ConsumerLock
  \/ ConsumerWait
  \/ \E uuid \in UUIDs : ConsumerAddInflight(uuid)
  \/ ConsumerOnMessage
  \/ \E r \in Coords : ProcessorReply(r)
  \/ \E m \in ProducerMessages : SuccessLock(m)
  \/ SuccessHandle

FairBackpressure ==
  /\ WF_vars(\E p \in Partitions, v \in Headers : ConsumerRecv(p, v))
  /\ WF_vars(ConsumerLock)
  /\ WF_vars(ConsumerWait)
  /\ WF_vars(\E uuid \in UUIDs : ConsumerAddInflight(uuid))
  /\ WF_vars(ConsumerOnMessage)
  /\ WF_vars(\E r \in Coords : ProcessorReply(r))
  /\ WF_vars(\E m \in ProducerMessages : SuccessLock(m))
  /\ WF_vars(SuccessHandle)

SpecBackpressure == InitBackpressure /\ [][NextBackpressure]_vars /\ FairBackpressure

\* the server command: startServer and the tasks it launches; startServer is
\* scheduled fairly, a bridge may run forever
TaskIds == 1..(2 * MaxBridges)

InitServer ==
  /\ InitBridge
  /\ conf.MaxInFlight = DefaultMaxInFlight
  /\ \E cfg \in ServerConfigs : server = [NoServer EXCEPT !.pc = "start", !.cfg = cfg]

NextServer ==
  \/ ServerReadConfig
  \/ ServerLaunchKafka
  \/ ServerLaunchWebhooks
  \/ \E t \in TaskIds : TaskFinish(t)
  \/ \E t \in TaskIds : ServerRecv(t)

FairServer ==
  /\ WF_vars(ServerReadConfig)
  /\ WF_vars(ServerLaunchKafka)
  /\ WF_vars(ServerLaunchWebhooks)
  /\ WF_vars(\E t \in TaskIds : ServerRecv(t))

SpecServer == InitServer /\ [][NextServer]_vars /\ FairServer

\* the bridge reading one partition once, with every combination of id and
\* account in the headers and more than one id the generator can return
InitKeys == Init /\ conf.MaxInFlight = DefaultMaxInFlight

NextKeys ==
  \/ \E v \in {BadJSON} \cup AllHeaders : ConsumerRecv(0, v)
  \/ ConsumerLock
  \/ \E uuid \in AllUUIDs : ConsumerAddInflight(uuid)
  \/ ConsumerOnMessage
  \/ ConsumerErrorReply
  \/ \E r \in Coords : ProcessorReply(r)
  \/ \E m \in ProducerMessages : SuccessLock(m)
  \/ SuccessHandle

SpecKeys == InitKeys /\ [][NextKeys]_vars

\* SetConf followed by ValidateConf on a new bridge
InitConf ==
  /\ conf \in ConfInputs
  /\ validation = [pc |-> "set", err |-> FALSE, raw |-> conf]
  /\ server = NoServer
  /\ InitTracker

ValidateConfStep ==
  /\ validation.pc = "set"
  /\ conf' = ValidateConf(conf).conf
  /\ validation' = [validation EXCEPT !.pc = "done", !.err = ValidateConf(conf).err]
  /\ UNCHANGED <<server, inFlight, mutex, consumer, success, errors, crashed, processing,
                 producerQ, stream, hist>>

NextConf == ValidateConfStep

SpecConf == InitConf /\ [][NextConf]_vars

\* the bridge on one partition with a ceiling below the number of deliveries,
\* undecodable messages and rebalances, a processor that replies and a producer that acknowledges every reply; the
\* steps of the loops, the processor and the producer are scheduled fairly,
\* deliveries and rebalances are not
NextAdvance ==
  \/ \E v \in Values : ConsumerRecv(0, v)
  \/ Rebalance(0)
  \/ ConsumerLock
  \/ ConsumerWait
  \/ \E uuid \in UUIDs : ConsumerAddInflight(uuid)
  \/ ConsumerDup
  \/ ConsumerOnMessage
  \/ ConsumerErrorReply
  \/ \E r \in Coords : ProcessorReply(r)
  \/ \E m \in ProducerMessages : SuccessLock(m)
  \/ SuccessHandle

\* the steps the consumer loop takes on a message it holds, and the steps of
\* the success loop: each loop is one goroutine, at most one of its steps is
\* enabled at a time
ConsumerLoopStep ==
  \/ ConsumerLock
  \/ ConsumerWait
  \/ \E uuid \in UUIDs : ConsumerAddInflight(uuid)
  \/ ConsumerDup
  \/ ConsumerOnMessage
  \/ ConsumerErrorReply

SuccessLoopStep ==
  \/ \E m \in ProducerMessages : SuccessLock(m)
  \/ SuccessHandle

FairAdvance ==
  /\ WF_vars(ConsumerLoopStep)
  /\ WF_vars(\E r \in Coords : ProcessorReply(r))
  /\ WF_vars(SuccessLoopStep)

InitAdvance == Init /\ conf.MaxInFlight = MaxCeiling

SpecAdvance == InitAdvance /\ [][NextAdvance]_vars /\ FairAdvance

TypeOK ==
  /\ mutex \in {"free", "consumer", "success", "errors"}
  /\ crashed \in {"no", "producer-error", "unknown-ack"}
  /\ DOMAIN inFlight \subseteq Coords
  /\ processing \subseteq Coords
\* ================================================================ claims
Coord(p, o) == ReqOffset(Topic, p, o)
InMap(c) == c \in DOMAIN inFlight
Size == Cardinality(DOMAIN inFlight)

\* C1 (capacity): in every reachable state the number of entries in the
\* inFlight map is at most the configured MaxInFlight.
CapacityInv == Size <= conf.MaxInFlight

\* the map is full and the consumer loop is blocked in the capacity wait
CapacityWitness == Size = conf.MaxInFlight /\ consumer.pc = "wait"

\* C3 (offset monotonicity): for each partition the offsets passed to
\* consumer.MarkOffset never decrease.
OffsetMonotonic ==
  [][\A p \in Partitions : stream.lastMarked[p]' >= stream.lastMarked[p]]_vars

\* C4 (dedup): a message whose coordinate was in the inFlight map when the
\* stream redelivered it is treated as a duplicate: addInflightMsg returns
\* nil for it, so there is no second OnMessage, no second reply and no change
\* of the map by the consumer loop.
DedupOnRedelivery ==
  (consumer.pc = "dispatch" /\ consumer.wasInFlight) => consumer.msgCtx = Nil

\* C8 (at-most-once outbound): each coordinate is dispatched to the processor
\* at most once and has at most one reply enqueued to the producer.
AtMostOnceOutbound ==
  \A c \in Coords : hist[c].dispatched <= 1 /\ hist[c].replied <= 1
PartitionOf(c) == c[2]
OffsetOf(c) == c[3]
MarkedNow(p) == stream.markCalls[p]' > stream.markCalls[p]
AckStep(r) == hist[r].acked' = hist[r].acked + 1
PartitionEntries(p) == { c \in DOMAIN inFlight : PartitionOf(c) = p }

\* C2 (no premature commit): when MarkOffset is called with offset O on
\* partition P, every coordinate (P, O') with O' <= O admitted before the call
\* has had its reply enqueued and confirmed, and is no longer in the map.
NoPrematureCommit ==
  [][\A p \in Partitions : MarkedNow(p) =>
       \A o \in Offsets :
         (o <= stream.lastMarked[p]' /\ hist[Coord(p, o)].admitted > 0) =>
            /\ hist[Coord(p, o)].replied = hist[Coord(p, o)].admitted
            /\ hist[Coord(p, o)].acked' = hist[Coord(p, o)].admitted
            /\ Coord(p, o) \notin DOMAIN inFlight']_vars

\* one mark that passed two admitted coordinates of a partition
NoPrematureCommitWitness ==
  \E p \in Partitions :
     /\ stream.markCalls[p] = 1
     /\ stream.lastMarked[p] = FirstOffset + 1
     /\ hist[Coord(p, FirstOffset)].admitted = 1
     /\ hist[Coord(p, FirstOffset + 1)].admitted = 1

\* the entries of r's partition that are complete once r is, with nothing
\* incomplete at or below them
ExpectedPrefix(r) ==
  { c \in PartitionEntries(PartitionOf(r)) :
      \A d \in PartitionEntries(PartitionOf(r)) :
         OffsetOf(d) <= OffsetOf(c) => (d = r \/ inFlight[d].complete) }

HighestOffset(S) == CHOOSE o \in { OffsetOf(c) : c \in S } : \A c \in S : OffsetOf(c) <= o

\* C5 (out-of-order completion): a setInFlightComplete call issues at most one
\* MarkOffset; none, and no removal, when the lowest entry of the partition is
\* incomplete; otherwise it removes exactly the maximal offset-ascending
\* prefix of complete entries of the partition and marks its highest offset.
\* With 10, 11, 12 admitted and 10 confirmed last there is a single mark of 12.
OutOfOrderCompletion ==
  /\ [][/\ \A p \in Partitions : stream.markCalls[p]' <= stream.markCalls[p] + 1
        /\ \A p, q \in Partitions : (MarkedNow(p) /\ MarkedNow(q)) => p = q
        /\ \A p \in Partitions : MarkedNow(p) =>
              \E r \in Coords : AckStep(r) /\ PartitionOf(r) = p
        /\ \A r \in Coords : AckStep(r) =>
              IF ExpectedPrefix(r) = {}
              THEN /\ DOMAIN inFlight' = DOMAIN inFlight
                   /\ \A p \in Partitions : ~MarkedNow(p)
              ELSE /\ DOMAIN inFlight' = (DOMAIN inFlight) \ ExpectedPrefix(r)
                   /\ MarkedNow(PartitionOf(r))
                   /\ stream.lastMarked[PartitionOf(r)]' = HighestOffset(ExpectedPrefix(r))]_vars
  /\ [](\A p \in Partitions :
         (/\ \A o \in FirstOffset..(FirstOffset + 2) : hist[Coord(p, o)].admitted = 1
          /\ hist[Coord(p, FirstOffset)].acked = 0)
         => stream.markCalls[p] = 0)

\* 10, 11 and 12 of one partition were confirmed with 10 last: one mark, of
\* 12, and none of the three is left in the map
OutOfOrderWitness ==
  \E p \in Partitions :
     /\ \A o \in FirstOffset..(FirstOffset + 2) :
          hist[Coord(p, o)].acked = 1 /\ Coord(p, o) \notin DOMAIN inFlight
     /\ stream.markCalls[p] = 1
     /\ stream.lastMarked[p] = FirstOffset + 2

PendingDispatch(c) == IF consumer.pc = "dispatch" /\ consumer.msgCtx = c THEN 1 ELSE 0
WithProcessor(c) == IF c \in processing THEN 1 ELSE 0
InProducer(c) ==
  LET ms == { m \in BagToSet(producerQ) : m.metadata = c } IN
  (IF ms = {} THEN 0 ELSE CopiesIn(CHOOSE m \in ms : TRUE, producerQ))
  + (IF success.msg.metadata = c THEN 1 ELSE 0)
  + (IF errors.msg.metadata = c THEN 1 ELSE 0)

\* C6 (exactly one reply): every admitted context has exactly one producer
\* enqueue carrying its coordinate, or that enqueue is still owed by the
\* consumer loop's dispatch or by the processor; a context whose headers did
\* not parse is never handed to OnMessage and is replied by the consumer loop,
\* a parsed one is handed to OnMessage once and not replied by the loop.
ExactlyOneReply ==
  \A c \in Coords :
     /\ hist[c].replied + PendingDispatch(c) + WithProcessor(c) = hist[c].admitted
     /\ InProducer(c) + hist[c].acked = hist[c].replied
     /\ stream.log[c] = {BadJSON} => hist[c].dispatched = 0
     /\ (stream.log[c] # {} /\ stream.log[c] \subseteq Headers) =>
           hist[c].dispatched + PendingDispatch(c) = hist[c].admitted

\* both kinds of context have been replied: one by the loop, one by the processor
ExactlyOneReplyWitness ==
  \E c, d \in Coords :
     /\ stream.log[c] = {BadJSON} /\ hist[c].replied = 1
     /\ stream.log[d] \subseteq Headers /\ hist[d].dispatched = 1 /\ hist[d].replied = 1

\* C7 (tracker membership, as claimed): the map holds an entry for a
\* coordinate iff it has been admitted and its reply is not yet confirmed.
TrackerIffUnconfirmed ==
  \A c \in Coords : InMap(c) <=> hist[c].admitted > hist[c].acked

\* C7 (amended): an admitted coordinate whose reply is not yet confirmed has an
\* entry; every entry was admitted and is either not yet confirmed, or is
\* confirmed and held behind a lower-offset unconfirmed entry of its partition.
TrackerMembership ==
  \A c \in Coords :
     /\ hist[c].admitted > hist[c].acked => (InMap(c) /\ ~inFlight[c].complete)
     /\ InMap(c) => hist[c].admitted > 0
     /\ (InMap(c) /\ inFlight[c].complete) =>
           /\ hist[c].admitted = hist[c].acked
           /\ \E d \in PartitionEntries(PartitionOf(c)) :
                 OffsetOf(d) < OffsetOf(c) /\ ~inFlight[d].complete

\* a confirmed entry is still in the map, behind an unconfirmed lower offset
TrackerMembershipWitness ==
  \E c \in Coords : InMap(c) /\ inFlight[c].complete /\ hist[c].acked = 1

LowerIncomplete(c) ==
  \E d \in PartitionEntries(PartitionOf(c)) : OffsetOf(d) < OffsetOf(c) /\ ~inFlight[d].complete

\* C9 (parse error): a context whose headers cannot be decoded is kept in the
\* map, is never handed to the processor, gets its error reply from the
\* consumer loop after the mutex is released, and when that reply is
\* confirmed with no lower incomplete entry it is removed and its offset marked.
ParseErrorHandling ==
  /\ [](\A c \in Coords :
         (stream.log[c] = {BadJSON} /\ hist[c].admitted > hist[c].acked) =>
            (InMap(c) /\ hist[c].dispatched = 0))
  /\ [](consumer.pc = "dispatch" => mutex # "consumer")
  /\ [][\A c \in Coords : stream.log[c] = {BadJSON} =>
          /\ (hist[c].admitted' = hist[c].admitted + 1) =>
                (consumer.pc' = "dispatch" /\ consumer.err' /\ consumer.msgCtx' = c /\ c \in DOMAIN inFlight')
          /\ (consumer.pc = "dispatch" /\ consumer.msgCtx = c /\ consumer.pc' # "dispatch") =>
                (/\ hist[c].replied' = hist[c].replied + 1
                 /\ BagIn([metadata |-> c, key |-> ""], producerQ')
                 /\ DOMAIN inFlight' = DOMAIN inFlight)
          /\ (AckStep(c) /\ ~LowerIncomplete(c)) =>
                (/\ c \notin DOMAIN inFlight'
                 /\ MarkedNow(PartitionOf(c))
                 /\ stream.lastMarked[PartitionOf(c)]' >= OffsetOf(c))]_vars

\* an undecodable message was admitted, replied, confirmed and marked
ParseErrorWitness ==
  \E c \in Coords :
     /\ stream.log[c] = {BadJSON}
     /\ hist[c].acked = 1
     /\ ~InMap(c)
     /\ stream.lastMarked[PartitionOf(c)] = OffsetOf(c)

\* C10 (producer error is fatal, offset uncommitted): when the error loop has
\* panicked for a reply of coordinate (P, O), no offset >= O has been marked
\* on P, the panic step itself changed neither the map nor the marks, and
\* nothing changes afterwards.
ProducerErrorFatal ==
  /\ [](crashed = "producer-error" =>
          stream.highMarked[PartitionOf(errors.msg.metadata)] < OffsetOf(errors.msg.metadata))
  /\ [][crashed' = "producer-error" => (inFlight' = inFlight /\ stream' = stream)]_vars
  /\ [][crashed # "no" => (inFlight' = inFlight /\ stream' = stream)]_vars
\* C11 (unknown acknowledgement is fatal): a success whose coordinate is not a
\* key of the map makes the success loop panic with no context set complete,
\* no entry removed and no offset marked; a success whose coordinate is a key
\* runs setInFlightComplete on it, wakes a consumer blocked in the capacity
\* wait and releases the mutex in the same critical section.
UnknownAckFatal ==
  [][(success.pc = "cs" /\ (success' # success \/ crashed' # crashed)) =>
       IF success.msg.metadata \in DOMAIN inFlight
       THEN /\ crashed' = "no"
            /\ \E r \in Coords :
                 /\ r = success.msg.metadata
                 /\ AckStep(r)
                 /\ r \notin DOMAIN inFlight' \/ inFlight'[r].complete
            /\ consumer.pc = "wait" => consumer'.pc = "woken"
            /\ mutex = "success" /\ mutex' = "free"
       ELSE /\ crashed' = "unknown-ack"
            /\ inFlight' = inFlight
            /\ stream' = stream
            /\ hist' = hist]_vars

\* the success loop has panicked on a coordinate that is not in the map
UnknownAckWitness ==
  crashed = "unknown-ack" /\ success.msg.metadata \notin DOMAIN inFlight

Delivered == { c \in Coords : stream.log[c] # {} }
Parsable(c) == \E v \in stream.log[c] : v.json
HandledOnce(c) ==
  /\ hist[c].admitted = 1
  /\ hist[c].dispatched = (IF Parsable(c) THEN 1 ELSE 0)
  /\ hist[c].replied = 1
AllHandledOnce ==
  /\ stream.delivered = MaxDeliveries
  /\ Cardinality(Delivered) = MaxDeliveries
  /\ \A c \in Delivered : HandledOnce(c)

\* C12 (backpressure releases): with more distinct deliveries than the ceiling
\* and fair loops, a processor that replies and a producer that acknowledges,
\* the consumer loop blocked in the capacity wait is always woken again and
\* gets its message into the map, every delivered message ends up dispatched
\* to the processor exactly once and replied once, and the map never holds
\* more than MaxInFlight entries.
BackpressureReleases ==
  /\ [](Size <= conf.MaxInFlight)
  /\ (consumer.pc = "wait") ~> (consumer.pc = "woken")
  /\ (consumer.pc = "wait") ~> (consumer.pc = "dispatch" /\ consumer.msgCtx # Nil)
  /\ <>[]AllHandledOnce

\* every delivery has been handled and the consumer had to wait on the way
\* (more admissions than the ceiling allows at once)
BackpressureWitness ==
  /\ AllHandledOnce
  /\ conf.MaxInFlight < MaxDeliveries
  /\ inFlight = << >>
  /\ \A c \in Delivered : hist[c].acked = 1

BecomesComplete(c) ==
  /\ c \in DOMAIN inFlight'
  /\ inFlight'[c].complete
  /\ ~(c \in DOMAIN inFlight /\ inFlight[c].complete)

\* C13 (I2, completed implies enqueued): a context of the map whose complete
\* flag is set has had Reply called on it (reply bytes written, a producer
\* message with its coordinate enqueued); the flag is set only by the success
\* loop handling an acknowledgement for that very coordinate.
CompletedImpliesEnqueued ==
  /\ [](\A c \in DOMAIN inFlight :
          inFlight[c].complete =>
             /\ inFlight[c].replied
             /\ hist[c].replied >= 1
             /\ hist[c].replied = hist[c].admitted)
  /\ [][\A c \in Coords :
          BecomesComplete(c) =>
             /\ success.pc = "cs"
             /\ mutex = "success"
             /\ success.msg.metadata = c
             /\ hist'[c].acked = hist[c].acked + 1]_vars

\* a confirmed context is kept in the map (behind a lower offset)
CompletedWitness ==
  \E c \in DOMAIN inFlight : inFlight[c].complete /\ inFlight[c].replied

Tasks == 1..Len(server.tasks)
AllValid(cfg) ==
  /\ ~cfg.readErr
  /\ ~cfg.printYAML
  /\ \A i \in 1..Len(cfg.kafka) : ~ValidateConf(cfg.kafka[i]).err
  /\ \A i \in 1..Len(cfg.webhooks) : cfg.webhooks[i]
NumBridges(cfg) == Len(cfg.kafka) + Len(cfg.webhooks)

\* C14 (supervisor any-finished): with every bridge configuration valid,
\* startServer launches one task per configured bridge before it waits; it
\* returns in the step that takes the finish signal of one task, whatever the
\* other tasks are doing; and once a task has finished it eventually returns.
AnyFinished ==
  /\ []((AllValid(server.cfg) /\ server.pc = "recv") =>
           Len(server.tasks) = NumBridges(server.cfg))
  /\ []((AllValid(server.cfg) /\ server.pc = "returned") =>
           /\ ~server.err
           /\ Cardinality({ t \in Tasks : server.tasks[t] = "exited" }) = 1)
  /\ [][(AllValid(server.cfg) /\ server.pc = "recv" /\
           \E t \in Tasks : server.tasks[t] = "finished" /\ server'.tasks[t] = "exited") =>
              /\ server'.pc = "returned"
              /\ \A u \in Tasks : server'.tasks[u] = "exited" \/ server'.tasks[u] = server.tasks[u]]_vars
  /\ (AllValid(server.cfg) /\ \E t \in Tasks : server.tasks[t] = "finished")
        ~> (server.pc = "returned")

\* startServer has returned on the finish of one task while another launched
\* task is still running
AnyFinishedWitness ==
  /\ AllValid(server.cfg)
  /\ server.pc = "returned"
  /\ \E t \in Tasks : server.tasks[t] = "exited"
  /\ \E t \in Tasks : server.tasks[t] = "running"

ValueOf(c) == CHOOSE v \in stream.log[c] : TRUE
ExpectedKey(c) ==
  IF ValueOf(c).account # "" THEN ValueOf(c).account
  ELSE IF ValueOf(c).id # "" THEN ValueOf(c).id
  ELSE inFlight[c].headersID
KeyDerived(c) ==
  /\ inFlight[c].key = ExpectedKey(c)
  /\ inFlight[c].key # ""
  /\ inFlight[c].headersID # ""
  /\ ValueOf(c).id # "" => inFlight[c].headersID = ValueOf(c).id
  /\ ValueOf(c).id = "" => inFlight[c].headersID \in AllUUIDs
RepliesCarryKey(S) ==
  \A m \in BagToSet(producerQ) :
     m.metadata \in S => (m.metadata \in DOMAIN inFlight /\ m.key = inFlight[m.metadata].key /\ m.key # "")
SameAccountSameKey(S) ==
  \A c1, c2 \in S :
     (ValueOf(c1).account # "" /\ ValueOf(c1).account = ValueOf(c2).account) =>
        inFlight[c1].key = inFlight[c2].key
Decoded == { c \in DOMAIN inFlight : ValueOf(c).json }

\* C15 as stated (key derivation for every admitted context): every context of
\* the map has the key account-else-id with a non-empty id, every reply
\* enqueued for a context of the map carries that non-empty key, and requests
\* with the same non-empty account have the same key.
KeyDerivationAll ==
  /\ \A c \in DOMAIN inFlight : KeyDerived(c)
  /\ RepliesCarryKey(Coords)
  /\ SameAccountSameKey(DOMAIN inFlight)

\* C15 amended (key derivation for the contexts whose headers decoded)
KeyDerivation ==
  /\ \A c \in Decoded : KeyDerived(c)
  /\ RepliesCarryKey({ c \in Coords : stream.log[c] # {} /\ ValueOf(c).json })
  /\ SameAccountSameKey(Decoded)
  /\ \A m \in BagToSet(producerQ) :
        (m.metadata \in DOMAIN inFlight /\ ~ValueOf(m.metadata).json) => m.key = ""

\* replies are enqueued of which one is keyed by a generated id and one by
\* the account
KeyDerivationWitness ==
  \E m1, m2 \in BagToSet(producerQ) :
     /\ m1.key \in AllUUIDs /\ ValueOf(m1.metadata).id = "" /\ ValueOf(m1.metadata).account = ""
     /\ m2.key = "0xabc" /\ ValueOf(m2.metadata).account = "0xabc"

MaxOf(a, b) == IF a > b THEN a ELSE b

\* C16 (configuration validation): ValidateConf fails and changes nothing when
\* the url is empty; otherwise it succeeds with MaxTXWaitTime raised to at
\* least 10 and MaxInFlight 10 when it was 0, so that afterwards
\* MaxTXWaitTime >= 10 and MaxInFlight is a positive ceiling.
ValidateConfContract ==
  validation.pc = "done" =>
     IF validation.raw.URL = ""
     THEN validation.err /\ conf = validation.raw
     ELSE /\ ~validation.err
          /\ conf.MaxTXWaitTime = MaxOf(MinTXWaitTime, validation.raw.MaxTXWaitTime)
          /\ validation.raw.MaxInFlight = 0 => conf.MaxInFlight = DefaultMaxInFlight
          /\ conf.MaxTXWaitTime >= MinTXWaitTime
          /\ conf.MaxInFlight > 0

MarkedOver(c) == stream.highMarked[PartitionOf(c)] >= OffsetOf(c)

\* C17 (offsets eventually advance): with fair loops, a processor that replies
\* and a producer that acknowledges, from some point on every coordinate that
\* was admitted (decodable or not, redelivered or not) is out of the map with
\* an offset at or above its own marked on its partition; hence whenever a
\* coordinate is in the map it is later removed and marked over, and no
\* acknowledged entry stays in the map forever.
OffsetsAdvance ==
  <>[](\A c \in Coords : hist[c].admitted > 0 => (c \notin DOMAIN inFlight /\ MarkedOver(c)))

\* every delivery has been consumed, one of them was dropped as a duplicate,
\* an undecodable coordinate was confirmed, and the map is empty with all
\* admitted coordinates marked over
OffsetsAdvanceWitness ==
  /\ inFlight = << >>
  /\ consumer.pc = "recv"
  /\ stream.delivered = MaxDeliveries
  /\ \A c \in Coords : hist[c].admitted <= 1 /\ (hist[c].admitted > 0 => MarkedOver(c))
  /\ Cardinality({ c \in Coords : hist[c].admitted > 0 }) < MaxDeliveries
  /\ \E c \in Coords : stream.log[c] = {BadJSON} /\ hist[c].acked > 0

OtherPartitionsUntouched(p) ==
  \A q \in Partitions \ {p} :
     /\ stream.lastMarked[q]' = stream.lastMarked[q]
     /\ stream.markCalls[q]' = stream.markCalls[q]
     /\ stream.highMarked[q]' = stream.highMarked[q]

\* C18 (per-partition independence): the setInFlightComplete call for a
\* context of partition P removes entries of P only, changes no other context,
\* marks on P only, and removes and marks the complete prefix of P whatever
\* entries the other partitions hold.
PartitionIndependence ==
  [][\A r \in Coords : AckStep(r) =>
        /\ DOMAIN inFlight' \subseteq DOMAIN inFlight
        /\ \A c \in (DOMAIN inFlight) \ (DOMAIN inFlight') : PartitionOf(c) = PartitionOf(r)
        /\ \A c \in DOMAIN inFlight' : c # r => inFlight'[c] = inFlight[c]
        /\ OtherPartitionsUntouched(PartitionOf(r))
        /\ ~LowerIncomplete(r) =>
              /\ DOMAIN inFlight' = (DOMAIN inFlight) \ ExpectedPrefix(r)
              /\ MarkedNow(PartitionOf(r))]_vars

\* the success loop is in setInFlightComplete for the lowest entry of one
\* partition while another partition holds an incomplete entry
PartitionIndependenceWitness ==
  /\ success.pc = "cs"
  /\ success.msg.metadata \in DOMAIN inFlight
  /\ ~LowerIncomplete(success.msg.metadata)
  /\ \E c \in DOMAIN inFlight :
        /\ PartitionOf(c) # PartitionOf(success.msg.metadata)
        /\ ~inFlight[c].complete
        /\ OffsetOf(c) <= OffsetOf(success.msg.metadata)

\* the success loop is inside its critical section: SuccessHandle has no
\* other guard and no blocking call, it completes the context (or panics)
SuccessInCS == Running /\ success.pc = "cs" /\ mutex = "success"

LowestOf(p) ==
  { c \in PartitionEntries(p) : \A d \in PartitionEntries(p) : OffsetOf(c) <= OffsetOf(d) }

\* C20 (no stranded completed head): whenever the mutex is free the lowest
\* entry of each partition in the map is incomplete, so every complete entry
\* of the map sits above an incomplete entry of its partition; and an entry
\* leaves the map only complete (set complete by the very call that removes it,
\* or before).
NoStrandedHead ==
  /\ [](mutex = "free" =>
          /\ \A p \in Partitions : \A c \in LowestOf(p) : ~inFlight[c].complete
          /\ \A c \in DOMAIN inFlight : inFlight[c].complete => LowerIncomplete(c))
  /\ [][\A c \in (DOMAIN inFlight) \ (DOMAIN inFlight') :
          /\ success.pc = "cs"
          /\ inFlight[c].complete \/ success.msg.metadata = c
          /\ \A d \in PartitionEntries(PartitionOf(c)) :
                OffsetOf(d) < OffsetOf(c) => d \notin DOMAIN inFlight']_vars

\* with the mutex free a complete entry is kept above an incomplete one, on a
\* partition from which a complete prefix has been removed before
NoStrandedHeadWitness ==
  /\ mutex = "free"
  /\ \E c \in DOMAIN inFlight :
        /\ inFlight[c].complete
        /\ LowerIncomplete(c)
        /\ stream.markCalls[PartitionOf(c)] > 0

\* replies written to the producer, or held by the success loop, whose
\* outcome is still owed for coordinate c
Outstanding(c) ==
  { m \in BagToSet(producerQ) : m.metadata = c }
    \cup (IF success.pc = "cs" /\ success.msg.metadata = c THEN {success.msg} ELSE {})

\* C21 (the unknown-acknowledgement panic is unreachable under the reply-once
\* discipline): with Reply called once per admitted context and one outcome
\* per enqueued message, whatever the deliveries, redeliveries and
\* acknowledgements, the success loop never panics on a coordinate absent
\* from the map: every reply whose outcome is owed, in the producer or in the
\* hands of the success loop, belongs to a context that is in the map, replied
\* and not complete, and there is one such reply per coordinate at most.
UnknownAckUnreachable ==
  /\ crashed # "unknown-ack"
  /\ success.pc = "cs" => success.msg.metadata \in DOMAIN inFlight
  /\ \A m \in BagToSet(producerQ) : CopiesIn(m, producerQ) = 1
  /\ \A c \in Coords :
        Outstanding(c) # {} =>
          /\ Cardinality(Outstanding(c)) = 1
          /\ c \in DOMAIN inFlight
          /\ inFlight[c].replied
          /\ ~inFlight[c].complete

\* the success loop holds, with the process running, the acknowledgement of a
\* coordinate that was redelivered and admitted a second time after its first
\* context had been confirmed and removed
UnknownAckUnreachableWitness ==
  /\ Running
  /\ success.pc = "cs"
  /\ hist[success.msg.metadata].admitted = 2
  /\ hist[success.msg.metadata].acked = 1
  /\ success.msg.metadata \in DOMAIN inFlight
====
